---------------------------- MODULE Spec2Model ----------------------------
(***************************************************************************)
(* Knowledge-graph extraction prototype (src/project/src/extract_kg.py).   *)
(*                                                                         *)
(* Texts are TLA+ strings, used as sequences of one-character strings.     *)
(* A spaCy Doc is a record: the sentence text, its tokens (character       *)
(* offset, length, coarse POS, dependency label, head index, lemma) and    *)
(* the character ranges of its named entities and noun chunks.  Token and  *)
(* span texts are slices of the sentence text, as in spaCy.                *)
(* Confidences 1.0 / 0.7 / 0.4 / 0.0 are kept in tenths (10 / 7 / 4 / 0).  *)
(***************************************************************************)
EXTENDS Integers, Sequences, FiniteSets, TLC

(***************************************************************************)
(* Text helpers: str.strip, str.lower, re.sub(r'\s+', ' ', .)              *)
(***************************************************************************)
UpperChars == "ABCDEFGHIJKLMNOPQRSTUVWXYZ"

LowerChars == "abcdefghijklmnopqrstuvwxyz"

IsSpace(c) ==
    c \in {" ", "\t", "\n"}

CharAt(s, i) ==
    SubSeq(s, i, i)

LowerMap ==
    [c \in {CharAt(UpperChars, k) : k \in 1..Len(UpperChars)} |->
        CharAt(LowerChars, CHOOSE k \in 1..Len(UpperChars) : CharAt(UpperChars, k) = c)]

LowerChar(c) ==
    IF c \in DOMAIN LowerMap THEN LowerMap[c] ELSE c

RECURSIVE LowerFrom(_, _)
LowerFrom(s, i) ==
    IF i > Len(s) THEN "" ELSE LowerChar(CharAt(s, i)) \o LowerFrom(s, i + 1)

Lower(s) ==
    LowerFrom(s, 1)

\* the first index at or after i that holds no whitespace (Len(s) + 1 if none)
RECURSIVE SkipSpaces(_, _)
SkipSpaces(s, i) ==
    IF i <= Len(s) /\ IsSpace(CharAt(s, i)) THEN SkipSpaces(s, i + 1) ELSE i

\* the last index at or before i that holds no whitespace (0 if none)
RECURSIVE SkipSpacesBack(_, _)
SkipSpacesBack(s, i) ==
    IF i >= 1 /\ IsSpace(CharAt(s, i)) THEN SkipSpacesBack(s, i - 1) ELSE i

Strip(s) ==
    SubSeq(s, SkipSpaces(s, 1), SkipSpacesBack(s, Len(s)))

\* re.sub(r'\s+', ' ', s): every maximal run of whitespace becomes one space
RECURSIVE CollapseFrom(_, _)
CollapseFrom(s, i) ==
    IF i > Len(s) THEN ""
    ELSE IF IsSpace(CharAt(s, i))
         THEN " " \o CollapseFrom(s, SkipSpaces(s, i))
         ELSE CharAt(s, i) \o CollapseFrom(s, i + 1)

CollapseSpaces(s) ==
    CollapseFrom(s, 1)

normalize_entity(span_text) ==
    CollapseSpaces(Lower(Strip(span_text)))

(***************************************************************************)
(* spaCy Doc accessors                                                     *)
(***************************************************************************)
TokenText(doc, i) ==
    SubSeq(doc.text, doc.tokens[i].idx + 1, doc.tokens[i].idx + doc.tokens[i].len)

SpanText(doc, sp) ==
    SubSeq(doc.text, sp.start_char + 1, sp.end_char)

\* token.children: the tokens whose head is the token, in sentence order
Children(doc, i) ==
    SelectSeq([k \in 1..Len(doc.tokens) |-> k],
              LAMBDA k : k # i /\ doc.tokens[k].head = i)

(***************************************************************************)
(* extract_entities_from_sentence                                          *)
(***************************************************************************)
NerSpans(doc) ==
    [k \in 1..Len(doc.ents) |->
        [text |-> normalize_entity(SpanText(doc, doc.ents[k])),
         start_char |-> doc.ents[k].start_char,
         end_char |-> doc.ents[k].end_char,
         typ |-> "NER"]]

\* AddNounChunks without the duplicate test: every noun chunk is appended
RECURSIVE AddNounChunks_NoDedup(_, _, _)
AddNounChunks_NoDedup(doc, ents, k) ==
    IF k > Len(doc.noun_chunks) THEN ents
    ELSE LET nc == doc.noun_chunks[k]
             txt == normalize_entity(SpanText(doc, nc))
         IN  AddNounChunks_NoDedup(doc,
                 Append(ents, [text |-> txt, start_char |-> nc.start_char,
                               end_char |-> nc.end_char, typ |-> "NOUN_CHUNK"]),
                 k + 1)

\* the loop over doc.noun_chunks
RECURSIVE AddNounChunks(_, _, _)
AddNounChunks(doc, ents, k) ==
    IF k > Len(doc.noun_chunks) THEN ents
    ELSE LET nc == doc.noun_chunks[k]
             txt == normalize_entity(SpanText(doc, nc))
         IN  IF ~ \E e \in 1..Len(ents) : txt = ents[e].text
             THEN AddNounChunks(doc,
                      Append(ents, [text |-> txt, start_char |-> nc.start_char,
                                    end_char |-> nc.end_char, typ |-> "NOUN_CHUNK"]),
                      k + 1)
             ELSE AddNounChunks(doc, ents, k + 1)

extract_entities_from_sentence(doc) ==
    AddNounChunks(doc, NerSpans(doc), 1)

(***************************************************************************)
(* token index -> entity text (last covering span wins)                    *)
(***************************************************************************)
TokenInSpan(doc, i, e) ==
    /\ doc.tokens[i].idx >= e.start_char
    /\ doc.tokens[i].idx + Len(TokenText(doc, i)) <= e.end_char

\* TokenIdxToEnt with "if token.i not in token_idx_to_ent": the first span is kept
RECURSIVE TokenIdxToEnt_FirstWins(_, _, _, _)
TokenIdxToEnt_FirstWins(doc, ents_in_sent, k, m) ==
    IF k > Len(ents_in_sent) THEN m
    ELSE LET e == ents_in_sent[k]
             covered == {i \in 1..Len(doc.tokens) : TokenInSpan(doc, i, e)}
         IN  TokenIdxToEnt_FirstWins(doc, ents_in_sent, k + 1,
                 [i \in (DOMAIN m) \cup covered |->
                     IF i \in DOMAIN m THEN m[i] ELSE e.text])

\* the token_idx_to_ent loop of extract_svo_triples
RECURSIVE TokenIdxToEnt(_, _, _, _)
TokenIdxToEnt(doc, ents_in_sent, k, m) ==
    IF k > Len(ents_in_sent) THEN m
    ELSE LET e == ents_in_sent[k]
             covered == {i \in 1..Len(doc.tokens) : TokenInSpan(doc, i, e)}
         IN  TokenIdxToEnt(doc, ents_in_sent, k + 1,
                 [i \in (DOMAIN m) \cup covered |->
                     IF i \in covered THEN e.text ELSE m[i]])

EmptyMap ==
    [i \in {} |-> ""]

\* token_idx_to_ent.get(token.i, token.text)
Resolve(doc, m, i) ==
    IF i \in DOMAIN m THEN m[i] ELSE TokenText(doc, i)

(***************************************************************************)
(* Confidence tiers, in tenths                                             *)
(***************************************************************************)
ConfSVO == 10

ConfPrep == 7

ConfCooc == 4

ConfDefault == 0

Triple(s, r, o, c) ==
    [s |-> s, r |-> r, o |-> o, conf |-> c]

(***************************************************************************)
(* extract_svo_triples                                                     *)
(***************************************************************************)
SubjDeps ==
    {"nsubj", "nsubjpass"}

ObjDeps ==
    {"dobj", "obj"}

\* the loop over token.children: the last matching child's text, "" for None
RECURSIVE LastChild(_, _, _, _, _, _)
LastChild(doc, m, ch, k, acc, deps) ==
    IF k > Len(ch) THEN acc
    ELSE LastChild(doc, m, ch, k + 1,
             IF doc.tokens[ch[k]].dep \in deps THEN Resolve(doc, m, ch[k]) ELSE acc,
             deps)

RECURSIVE SvoLoop(_, _, _, _)
SvoLoop(doc, m, i, triples) ==
    IF i > Len(doc.tokens) THEN triples
    ELSE IF doc.tokens[i].pos = "VERB"
         THEN LET ch == Children(doc, i)
                  subj == LastChild(doc, m, ch, 1, "", SubjDeps)
                  dobj == LastChild(doc, m, ch, 1, "", ObjDeps)
              IN  IF subj # "" /\ dobj # ""
                  THEN SvoLoop(doc, m, i + 1,
                           Append(triples,
                               Triple(normalize_entity(subj),
                                      Lower(doc.tokens[i].lemma),
                                      normalize_entity(dobj), ConfSVO)))
                  ELSE SvoLoop(doc, m, i + 1, triples)
         ELSE SvoLoop(doc, m, i + 1, triples)

extract_svo_triples(doc, ents_in_sent) ==
    SvoLoop(doc, TokenIdxToEnt(doc, ents_in_sent, 1, EmptyMap), 1, <<>>)

(***************************************************************************)
(* extract_prep_triples                                                    *)
(***************************************************************************)
PobjDeps ==
    {"pobj"}

\* PrepHeadEnt without the raw-text default: a head outside every span is None
PrepHeadEnt_EntityOnly(doc, m, i) ==
    IF doc.tokens[i].head \in DOMAIN m THEN m[doc.tokens[i].head] ELSE ""

\* head_ent = token_idx_to_ent.get(head.i, head.text)
PrepHeadEnt(doc, m, i) ==
    Resolve(doc, m, doc.tokens[i].head)

\* the token_idx_to_ent loop of extract_prep_triples
RECURSIVE PrepTokenIdxToEnt(_, _, _, _)
PrepTokenIdxToEnt(doc, ents_in_sent, k, m) ==
    IF k > Len(ents_in_sent) THEN m
    ELSE LET e == ents_in_sent[k]
             covered == {i \in 1..Len(doc.tokens) : TokenInSpan(doc, i, e)}
         IN  PrepTokenIdxToEnt(doc, ents_in_sent, k + 1,
                 [i \in (DOMAIN m) \cup covered |->
                     IF i \in covered THEN e.text ELSE m[i]])

RECURSIVE PrepLoop(_, _, _, _)
PrepLoop(doc, m, i, triples) ==
    IF i > Len(doc.tokens) THEN triples
    ELSE IF doc.tokens[i].dep = "prep"
         THEN LET ch == Children(doc, i)
                  pobj_ent == LastChild(doc, m, ch, 1, "", PobjDeps)
                  pobj == normalize_entity(pobj_ent)
                  head_ent == PrepHeadEnt(doc, m, i)
              IN  IF head_ent # "" /\ pobj # ""
                  THEN PrepLoop(doc, m, i + 1,
                           Append(triples,
                               Triple(normalize_entity(head_ent),
                                      Lower(TokenText(doc, i)),
                                      pobj, ConfPrep)))
                  ELSE PrepLoop(doc, m, i + 1, triples)
         ELSE PrepLoop(doc, m, i + 1, triples)

extract_prep_triples(doc, ents_in_sent) ==
    PrepLoop(doc, PrepTokenIdxToEnt(doc, ents_in_sent, 1, EmptyMap), 1, <<>>)

(***************************************************************************)
(* extract_cooccurrence_triples                                            *)
(***************************************************************************)
RECURSIVE CoocLoop(_, _, _, _)
CoocLoop(ent_texts, i, j, triples) ==
    IF i > Len(ent_texts) THEN triples
    ELSE IF j > Len(ent_texts) THEN CoocLoop(ent_texts, i + 1, i + 2, triples)
    ELSE IF ent_texts[i] # ent_texts[j]
         THEN CoocLoop(ent_texts, i, j + 1,
                  Append(triples, Triple(ent_texts[i], "related_to", ent_texts[j], ConfCooc)))
         ELSE CoocLoop(ent_texts, i, j + 1, triples)

extract_cooccurrence_triples(ents_in_sent) ==
    CoocLoop([k \in 1..Len(ents_in_sent) |-> normalize_entity(ents_in_sent[k].text)],
             1, 2, <<>>)

(***************************************************************************)
(* unique_triple_key and the deduplication of extract_triples_from_sentence*)
(***************************************************************************)
unique_triple_key(t) ==
    t.s \o "|" \o t.r \o "|" \o t.o

\* DedupPut without the confidence test: the last triple of a key is kept
DedupPut_Overwrite(dedup, t) ==
    LET key == unique_triple_key(t)
        hit == {k \in 1..Len(dedup) : dedup[k].key = key}
    IN  IF hit = {} THEN Append(dedup, [key |-> key, val |-> t])
        ELSE LET k == CHOOSE x \in hit : TRUE
             IN  [dedup EXCEPT ![k] = [key |-> key, val |-> t]]

\* dedup is an insertion-ordered dict: a sequence of [key, val] entries
DedupPut(dedup, t) ==
    LET key == unique_triple_key(t)
        hit == {k \in 1..Len(dedup) : dedup[k].key = key}
    IN  IF hit = {} THEN Append(dedup, [key |-> key, val |-> t])
        ELSE LET k == CHOOSE x \in hit : TRUE
             IN  IF t.conf > dedup[k].val.conf
                 THEN [dedup EXCEPT ![k] = [key |-> key, val |-> t]]
                 ELSE dedup

RECURSIVE DedupLoop(_, _, _)
DedupLoop(triples, k, dedup) ==
    IF k > Len(triples) THEN dedup
    ELSE DedupLoop(triples, k + 1, DedupPut(dedup, triples[k]))

Deduplicate(triples) ==
    LET dedup == DedupLoop(triples, 1, <<>>)
    IN  [k \in 1..Len(dedup) |-> dedup[k].val]

\* FallbackRuns without "not triples"
FallbackRuns_Always(triples, ents) ==
    Len(ents) >= 2

\* the fallback gate of extract_triples_from_sentence
FallbackRuns(triples, ents) ==
    triples = <<>> /\ Len(ents) >= 2

Candidates(doc, ents) ==
    LET strong == extract_svo_triples(doc, ents) \o extract_prep_triples(doc, ents)
    IN  IF FallbackRuns(strong, ents)
        THEN strong \o extract_cooccurrence_triples(ents)
        ELSE strong

\* returns (triples, ents, doc.text)
extract_triples_from_sentence(doc) ==
    LET ents == extract_entities_from_sentence(doc)
    IN  [triples |-> Deduplicate(Candidates(doc, ents)),
         ents |-> ents,
         text |-> doc.text]

(***************************************************************************)
(* The annotator nlp(sentence) on the sentences of the corpus              *)
(***************************************************************************)
Tok(idx, len, pos, dep, head, lemma) ==
    [idx |-> idx, len |-> len, pos |-> pos, dep |-> dep, head |-> head, lemma |-> lemma]

Span(start_char, end_char) ==
    [start_char |-> start_char, end_char |-> end_char]

DocLoves ==
    [text |-> "Paris loves France",
     tokens |-> << Tok(0, 5, "PROPN", "nsubj", 2, "Paris"),
                   Tok(6, 5, "VERB", "ROOT", 2, "love"),
                   Tok(12, 6, "PROPN", "dobj", 2, "France") >>,
     ents |-> << Span(0, 5), Span(12, 18) >>,
     noun_chunks |-> << Span(0, 5), Span(12, 18) >>]

DocInOf ==
    [text |-> "Paris in France, of France",
     tokens |-> << Tok(0, 5, "PROPN", "ROOT", 1, "Paris"),
                   Tok(6, 2, "ADP", "prep", 1, "in"),
                   Tok(9, 6, "PROPN", "pobj", 2, "France"),
                   Tok(15, 1, "PUNCT", "punct", 1, ","),
                   Tok(17, 2, "ADP", "prep", 1, "of"),
                   Tok(20, 6, "PROPN", "pobj", 5, "France") >>,
     ents |-> << Span(0, 5), Span(9, 15), Span(20, 26) >>,
     noun_chunks |-> << Span(0, 5), Span(9, 15), Span(20, 26) >>]

DocOf ==
    [text |-> "paris Of  FRANCE",
     tokens |-> << Tok(0, 5, "PROPN", "ROOT", 1, "paris"),
                   Tok(6, 2, "ADP", "prep", 1, "of"),
                   Tok(10, 6, "PROPN", "pobj", 2, "FRANCE") >>,
     ents |-> << Span(10, 16) >>,
     noun_chunks |-> << Span(0, 5), Span(10, 16) >>]

DocPair ==
    [text |-> "Paris, France",
     tokens |-> << Tok(0, 5, "PROPN", "ROOT", 1, "Paris"),
                   Tok(5, 1, "PUNCT", "punct", 1, ","),
                   Tok(7, 6, "PROPN", "appos", 1, "France") >>,
     ents |-> << Span(0, 5), Span(7, 13) >>,
     noun_chunks |-> << Span(0, 5), Span(7, 13) >>]

DocVisits ==
    [text |-> "France visits Rome in Paris",
     tokens |-> << Tok(0, 6, "PROPN", "nsubj", 2, "France"),
                   Tok(7, 6, "VERB", "ROOT", 2, "visit"),
                   Tok(14, 4, "PROPN", "dobj", 2, "Rome"),
                   Tok(19, 2, "ADP", "prep", 3, "in"),
                   Tok(22, 5, "PROPN", "pobj", 4, "Paris") >>,
     ents |-> << Span(0, 6), Span(14, 18), Span(22, 27) >>,
     noun_chunks |-> << Span(0, 6), Span(14, 18), Span(22, 27) >>]

DocRome ==
    [text |-> "Rome.",
     tokens |-> << Tok(0, 4, "PROPN", "ROOT", 1, "Rome"),
                   Tok(4, 1, "PUNCT", "punct", 1, ".") >>,
     ents |-> << Span(0, 4) >>,
     noun_chunks |-> << Span(0, 4) >>]

CorpusDocs ==
    << DocLoves, DocInOf, DocOf, DocPair, DocVisits, DocRome >>

\* nlp(sentence): the annotation of a sentence of the corpus
nlp(sentence) ==
    CorpusDocs[CHOOSE k \in 1..Len(CorpusDocs) : CorpusDocs[k].text = sentence]

(***************************************************************************)
(* Annotated sentences for the sentence-level pipeline: two scenario       *)
(* sentences, and families of annotations of a tokenised text: every       *)
(* choice of dependency tree, labels and entity / noun-chunk spans from    *)
(* the sets given.                                                         *)
(***************************************************************************)
DocWater ==
    [text |-> "Water boils at 100 degrees.",
     tokens |-> << Tok(0, 5, "NOUN", "nsubj", 2, "water"),
                   Tok(6, 5, "VERB", "ROOT", 2, "boil"),
                   Tok(12, 2, "ADP", "prep", 2, "at"),
                   Tok(15, 3, "NUM", "nummod", 5, "100"),
                   Tok(19, 7, "NOUN", "pobj", 3, "degree"),
                   Tok(26, 1, "PUNCT", "punct", 2, ".") >>,
     ents |-> << >>,
     noun_chunks |-> << Span(0, 5), Span(15, 26) >>]

DocCommittee ==
    [text |-> "The committee rejected the proposal.",
     tokens |-> << Tok(0, 3, "DET", "det", 2, "the"),
                   Tok(4, 9, "NOUN", "nsubj", 3, "committee"),
                   Tok(14, 8, "VERB", "ROOT", 3, "reject"),
                   Tok(23, 3, "DET", "det", 5, "the"),
                   Tok(27, 8, "NOUN", "dobj", 3, "proposal"),
                   Tok(35, 1, "PUNCT", "punct", 3, ".") >>,
     ents |-> << >>,
     noun_chunks |-> << >>]

DocParis ==
    [text |-> "Paris is Paris.",
     tokens |-> << Tok(0, 5, "PROPN", "nsubj", 2, "Paris"),
                   Tok(6, 2, "AUX", "ROOT", 2, "be"),
                   Tok(9, 5, "PROPN", "attr", 2, "Paris"),
                   Tok(14, 1, "PUNCT", "punct", 2, ".") >>,
     ents |-> << Span(0, 5), Span(9, 14) >>,
     noun_chunks |-> << Span(0, 5), Span(9, 14) >>]

\* a named entity mentioned twice, another one in between
DocTour ==
    [text |-> "Paris, Rome, Paris.",
     tokens |-> << Tok(0, 5, "PROPN", "ROOT", 1, "Paris"),
                   Tok(5, 1, "PUNCT", "punct", 1, ","),
                   Tok(7, 4, "PROPN", "conj", 1, "Rome"),
                   Tok(11, 1, "PUNCT", "punct", 3, ","),
                   Tok(13, 5, "PROPN", "conj", 3, "Paris"),
                   Tok(18, 1, "PUNCT", "punct", 1, ".") >>,
     ents |-> << Span(0, 5), Span(7, 11), Span(13, 18) >>,
     noun_chunks |-> << Span(0, 5), Span(7, 11), Span(13, 18) >>]

\* tokens that contain the character '|'
DocPipe ==
    [text |-> "a in b|in|c, a|in|b in c",
     tokens |-> << Tok(0, 1, "NOUN", "ROOT", 1, "a"),
                   Tok(2, 2, "ADP", "prep", 1, "in"),
                   Tok(5, 6, "NOUN", "pobj", 2, "b|in|c"),
                   Tok(11, 1, "PUNCT", "punct", 1, ","),
                   Tok(13, 6, "NOUN", "appos", 1, "a|in|b"),
                   Tok(20, 2, "ADP", "prep", 5, "in"),
                   Tok(23, 1, "NOUN", "pobj", 6, "c") >>,
     ents |-> << >>,
     noun_chunks |-> << Span(0, 1), Span(5, 11), Span(13, 19), Span(23, 24) >>]

\* a dependency tree: one root (its own head), every token below it
RECURSIVE Ancestor(_, _, _)
Ancestor(heads, i, n) ==
    IF n = 0 THEN i ELSE Ancestor(heads, heads[i], n - 1)

IsTree(heads) ==
    LET n == Len(heads)
    IN  \E r \in 1..n :
            /\ heads[r] = r
            /\ \A i \in 1..n : Ancestor(heads, i, n) = r

\* doc.ents and doc.noun_chunks: spans that do not overlap, in sentence order
SpanSeqs(cands) ==
    LET ok(S) == \A a, b \in S :
                     a < b => cands[a].end_char <= cands[b].start_char
        pick(S) == SelectSeq(cands, LAMBDA c : \E a \in S : cands[a] = c)
    IN  {pick(S) : S \in {T \in SUBSET (1..Len(cands)) : ok(T)}}

\* the annotations of a tokenised text
GenDocs(base) ==
    LET n == Len(base.toks)
    IN  { [text |-> base.text,
           tokens |-> [i \in 1..n |->
                          Tok(base.toks[i].idx, base.toks[i].len, pos[i],
                              IF heads[i] = i THEN "ROOT" ELSE dep[i],
                              heads[i], base.toks[i].lemma)],
           ents |-> e,
           noun_chunks |-> nc] :
          heads \in {h \in base.heads : IsTree(h)},
          pos \in {f \in [1..n -> UNION {base.pos[i] : i \in 1..n}] :
                      \A i \in 1..n : f[i] \in base.pos[i]},
          dep \in {f \in [1..n -> UNION {base.dep[i] : i \in 1..n}] :
                      \A i \in 1..n : f[i] \in base.dep[i]},
          e \in SpanSeqs(base.ent_cands),
          nc \in SpanSeqs(base.nc_cands) }

BaseTok(idx, len, lemma) ==
    [idx |-> idx, len |-> len, lemma |-> lemma]

\* three tokens, every tree, the labels the extractors read
BaseRome ==
    [text |-> "Rome in  rome",
     toks |-> << BaseTok(0, 4, "Rome"), BaseTok(5, 2, "in"), BaseTok(9, 4, "rome") >>,
     heads |-> [1..3 -> 1..3],
     pos |-> << {"PROPN"}, {"VERB", "ADP"}, {"PROPN"} >>,
     dep |-> << {"nsubj", "dobj", "prep", "pobj"}, {"nsubj", "dobj", "prep", "pobj"},
                {"nsubj", "dobj", "prep", "pobj"} >>,
     ent_cands |-> << Span(0, 4), Span(5, 13), Span(9, 13) >>,
     nc_cands |-> << Span(0, 4), Span(9, 13) >>]

\* five tokens: a verb that is also a preposition, one span over two children
BaseYork ==
    [text |-> "Rome in rome New York",
     toks |-> << BaseTok(0, 4, "Rome"), BaseTok(5, 2, "In"), BaseTok(8, 4, "rome"),
                 BaseTok(13, 3, "New"), BaseTok(17, 4, "York") >>,
     heads |-> {<<1, 1, 2, 2, 2>>, <<2, 2, 2, 2, 2>>},
     pos |-> << {"PROPN"}, {"VERB", "ADP"}, {"PROPN"}, {"PROPN"}, {"PROPN"} >>,
     dep |-> << {"nsubj"}, {"prep", "conj"}, {"nsubj", "nsubjpass", "amod"},
                {"dobj", "obj", "pobj"}, {"pobj", "dobj"} >>,
     ent_cands |-> << Span(0, 4), Span(8, 12), Span(13, 21) >>,
     nc_cands |-> << Span(0, 4), Span(13, 21), Span(17, 21) >>]

SentenceDocs ==
    {DocWater, DocCommittee, DocParis, DocTour, DocPipe}
        \cup {CorpusDocs[k] : k \in 1..Len(CorpusDocs)}
        \cup GenDocs(BaseRome) \cup GenDocs(BaseYork)

(***************************************************************************)
(* The processed folder                                                    *)
(***************************************************************************)
\* total number of lines in the files of the folder
MaxLines == 2

FileNames ==
    {"B.TXT", "a.txt", "notes.md"}

TxtNames ==
    {"B.TXT", "a.txt"}

\* the lines f.readlines() can return: a sentence of the corpus, or a blank line
FileLines ==
    {CorpusDocs[k].text \o "\n" : k \in 1..Len(CorpusDocs)} \cup {" \n"}

LineSeqs(n) ==
    UNION {[1..k -> FileLines] : k \in 0..n}

Perms(S) ==
    {p \in [1..Cardinality(S) -> S] : \A a, b \in 1..Cardinality(S) : a # b => p[a] # p[b]}

\* characters in code-point order, for the comparison of str
CodePoints ==
    "\t\n !,.0123456789ABCDEFGHIJKLMNOPQRSTUVWXYZ_abcdefghijklmnopqrstuvwxyz|"

OrdMap ==
    [c \in {CharAt(CodePoints, k) : k \in 1..Len(CodePoints)} |->
        CHOOSE k \in 1..Len(CodePoints) : CharAt(CodePoints, k) = c]

Ord(c) ==
    OrdMap[c]

\* a < b on str: the first differing character decides, a proper prefix is less
RECURSIVE StrLessFrom(_, _, _)
StrLessFrom(a, b, i) ==
    IF i > Len(b) THEN FALSE
    ELSE IF i > Len(a) THEN TRUE
    ELSE IF CharAt(a, i) = CharAt(b, i) THEN StrLessFrom(a, b, i + 1)
    ELSE Ord(CharAt(a, i)) < Ord(CharAt(b, i))

StrLess(a, b) ==
    StrLessFrom(a, b, 1)

\* sorted(os.listdir(processed_folder))
RECURSIVE Sorted(_)
Sorted(names) ==
    IF names = <<>> THEN <<>>
    ELSE LET k == CHOOSE a \in 1..Len(names) :
                      \A b \in 1..Len(names) : ~ StrLess(names[b], names[a])
         IN  <<names[k]>> \o Sorted(SubSeq(names, 1, k - 1) \o SubSeq(names, k + 1, Len(names)))

\* fname.lower().endswith(".txt")
IsTxt(fname) ==
    LET low == Lower(fname)
    IN  Len(low) >= 4 /\ SubSeq(low, Len(low) - 3, Len(low)) = ".txt"

\* [line.strip() for line in f.readlines() if line.strip()]
StrippedLines(raw) ==
    LET stripped == [k \in 1..Len(raw) |-> Strip(raw[k])]
    IN  SelectSeq(stripped, LAMBDA l : l # "")

(***************************************************************************)
(* networkx DiGraph: node attributes and one attributed edge per pair      *)
(***************************************************************************)
EmptyGraph ==
    [nodes |-> {}, edges |-> {}]

NodeIds(G) ==
    {n.id : n \in G.nodes}

has_node(G, n) ==
    n \in NodeIds(G)

has_edge(G, u, v) ==
    \E e \in G.edges : e.src = u /\ e.tgt = v

EdgeOf(G, u, v) ==
    CHOOSE e \in G.edges : e.src = u /\ e.tgt = v

add_node(G, n, label) ==
    [G EXCEPT !.nodes = {m \in @ : m.id # n} \cup {[id |-> n, attrs |-> {<<"label", label>>}]}]

\* add_edge creates missing end points without attributes
add_edge(G, u, v, r, conf) ==
    [nodes |-> G.nodes \cup {[id |-> n, attrs |-> {}] : n \in {u, v} \ NodeIds(G)},
     edges |-> {e \in G.edges : ~(e.src = u /\ e.tgt = v)}
                 \cup {[src |-> u, tgt |-> v, relation |-> r, confidence |-> conf]}]

\* G[s][o]["relation"] = r; G[s][o]["confidence"] = conf
set_edge_attrs(G, u, v, r, conf) ==
    [G EXCEPT !.edges = {e \in @ : ~(e.src = u /\ e.tgt = v)}
                 \cup {[src |-> u, tgt |-> v, relation |-> r, confidence |-> conf]}]

\* MergeEdge without the update branch: the first record of a pair is kept
MergeEdge_KeepsFirst(G, t) ==
    IF has_edge(G, t.subject, t.object)
    THEN G
    ELSE add_edge(G, t.subject, t.object, t.relation, t.confidence)

\* MergeEdge with "conf >= prev_conf": a tie replaces the stored relation
MergeEdge_TieReplaces(G, t) ==
    IF has_edge(G, t.subject, t.object)
    THEN LET e == EdgeOf(G, t.subject, t.object)
             prev_conf == IF "confidence" \in DOMAIN e THEN e.confidence ELSE ConfDefault
         IN  IF t.confidence >= prev_conf
             THEN set_edge_attrs(G, t.subject, t.object, t.relation, t.confidence)
             ELSE G
    ELSE add_edge(G, t.subject, t.object, t.relation, t.confidence)

\* if G.has_edge(s, o): ... else: G.add_edge(s, o, relation=r, confidence=conf)
MergeEdge(G, t) ==
    IF has_edge(G, t.subject, t.object)
    THEN LET e == EdgeOf(G, t.subject, t.object)
             prev_conf == IF "confidence" \in DOMAIN e THEN e.confidence ELSE ConfDefault
         IN  IF t.confidence > prev_conf
             THEN set_edge_attrs(G, t.subject, t.object, t.relation, t.confidence)
             ELSE G
    ELSE add_edge(G, t.subject, t.object, t.relation, t.confidence)

\* EnsureNode without the add_node call: the node is left to add_edge
EnsureNode_Skipped(G, n) ==
    G

\* if not G.has_node(n): G.add_node(n, label=n)
EnsureNode(G, n) ==
    IF ~ has_node(G, n) THEN add_node(G, n, n) ELSE G

GraphAdd(G, t) ==
    MergeEdge(EnsureNode(EnsureNode(G, t.subject), t.object), t)

(***************************************************************************)
(* extract_kg_from_processed                                               *)
(***************************************************************************)
Record(t, fname, sentence_text) ==
    [subject |-> t.s, relation |-> t.r, object |-> t.o, confidence |-> t.conf,
     source_file |-> fname, sentence |-> sentence_text]

SentenceRecords(fname, sent) ==
    LET res == extract_triples_from_sentence(nlp(sent))
    IN  [k \in 1..Len(res.triples) |-> Record(res.triples[k], fname, res.text)]

NoFile ==
    [written |-> FALSE]

VARIABLES
    files,        \* file name -> [readable, lines]
    pc,           \* position in extract_kg_from_processed
    names,        \* sorted(os.listdir(...)) of load_processed_texts
    fi,           \* load_processed_texts: index of the next name
    data,         \* the insertion-ordered dict {fname: lines} as a sequence
    di, li,       \* extraction loops: index of the file in data, of the sentence
    all_triples,  \* the record list
    G,            \* the graph
    gi,           \* graph-building loop: index of the next record
    out_csv, out_gml, out_png,   \* the output files
    stdout,       \* the messages printed
    ret,          \* the returned (all_triples, G), or the exception raised
    s_doc,        \* extract_triples_from_sentence: the Doc of the sentence
    s_stage,      \* extract_triples_from_sentence: position
    s_ents,       \* ents
    s_svo,        \* what extract_svo_triples returned
    s_prep,       \* what extract_prep_triples returned
    s_triples,    \* triples, the candidate list
    s_result      \* the list returned

pvars ==
    <<files, pc, names, fi, data, di, li, all_triples, G, gi,
      out_csv, out_gml, out_png, stdout, ret>>

svars ==
    <<s_doc, s_stage, s_ents, s_svo, s_prep, s_triples, s_result>>

vars ==
    <<pvars, svars>>

\* no sentence-level run is in progress
SentenceIdle ==
    /\ s_doc = [text |-> ""]
    /\ s_stage = "idle"
    /\ s_ents = <<>>
    /\ s_svo = <<>>
    /\ s_prep = <<>>
    /\ s_triples = <<>>
    /\ s_result = <<>>

Folders ==
    {f \in [TxtNames -> [readable : {TRUE}, lines : LineSeqs(MaxLines)]
                          \cup {[readable |-> FALSE, lines |-> <<>>]}] :
        Len(f["B.TXT"].lines) + Len(f["a.txt"].lines) <= MaxLines}

Init ==
    /\ \E f \in Folders :
           files = [n \in FileNames |->
                       IF n \in TxtNames THEN f[n]
                       ELSE [readable |-> TRUE, lines |-> <<"notes\n">>]]
    /\ pc = "listdir"
    /\ names = <<>>
    /\ fi = 1
    /\ data = <<>>
    /\ di = 1
    /\ li = 1
    /\ all_triples = <<>>
    /\ G = EmptyGraph
    /\ gi = 1
    /\ out_csv = NoFile
    /\ out_gml = NoFile
    /\ out_png = NoFile
    /\ stdout = <<>>
    /\ ret = [kind |-> "running"]
    /\ SentenceIdle

\* the names in the order os.listdir gave them
Listed_Unsorted(dir) ==
    dir

\* sorted(os.listdir(processed_folder))
Listed(dir) ==
    Sorted(dir)

\* load_processed_texts: the names to visit; os.listdir gives them in any order
ListDir ==
    /\ pc = "listdir"
    /\ \E dir \in Perms(FileNames) : names' = Listed(dir)
    /\ fi' = 1
    /\ pc' = "load"
    /\ UNCHANGED <<files, data, di, li, all_triples, G, gi,
                   out_csv, out_gml, out_png, stdout, ret, svars>>

\* load_processed_texts: one iteration of the loop over the names
LoadData(d, fname) ==
    LET lines == StrippedLines(files[fname].lines)
    IN  IF lines # <<>> THEN Append(d, [fname |-> fname, lines |-> lines]) ELSE d

LoadFile ==
    /\ pc = "load"
    /\ fi <= Len(names)
    /\ LET fname == names[fi]
       IN  \/ /\ ~ IsTxt(fname)
              /\ fi' = fi + 1
              /\ UNCHANGED <<data, pc, ret>>
           \/ /\ IsTxt(fname)
              /\ files[fname].readable
              /\ data' = LoadData(data, fname)
              /\ fi' = fi + 1
              /\ UNCHANGED <<pc, ret>>
           \/ /\ IsTxt(fname)
              /\ ~ files[fname].readable
              /\ pc' = "raised"
              /\ ret' = [kind |-> "exception", type |-> "OSError", fname |-> fname]
              /\ UNCHANGED <<data, fi>>
    /\ UNCHANGED <<files, names, di, li, all_triples, G, gi,
                   out_csv, out_gml, out_png, stdout, svars>>

LoadDone ==
    /\ pc = "load"
    /\ fi > Len(names)
    /\ pc' = "extract"
    /\ di' = 1
    /\ li' = 1
    /\ UNCHANGED <<files, names, fi, data, all_triples, G, gi,
                   out_csv, out_gml, out_png, stdout, ret, svars>>

\* one sentence of the loops over data.items() and its sentences
ExtractSentence ==
    /\ pc = "extract"
    /\ di <= Len(data)
    /\ all_triples' = all_triples \o SentenceRecords(data[di].fname, data[di].lines[li])
    /\ IF li < Len(data[di].lines)
       THEN li' = li + 1 /\ di' = di
       ELSE li' = 1 /\ di' = di + 1
    /\ UNCHANGED <<files, pc, names, fi, data, G, gi,
                   out_csv, out_gml, out_png, stdout, ret, svars>>

\* SaveCsv without the "if all_triples" test: the table is always written
SaveCsv_Always ==
    /\ pc = "extract"
    /\ di > Len(data)
    /\ out_csv' = [written |-> TRUE, rows |-> all_triples]
    /\ stdout' = Append(stdout, "[INFO] Saved triples")
    /\ G' = EmptyGraph
    /\ gi' = 1
    /\ pc' = "graph"
    /\ UNCHANGED <<files, names, fi, data, di, li, all_triples,
                   out_gml, out_png, ret, svars>>

\* if all_triples: df.to_csv(...) else: print("[WARN] No triples extracted.")
SaveCsv ==
    /\ pc = "extract"
    /\ di > Len(data)
    /\ \/ /\ all_triples # <<>>
          /\ out_csv' = [written |-> TRUE, rows |-> all_triples]
          /\ stdout' = Append(stdout, "[INFO] Saved triples")
       \/ /\ all_triples = <<>>
          /\ stdout' = Append(stdout, "[WARN] No triples extracted.")
          /\ UNCHANGED out_csv
    /\ G' = EmptyGraph
    /\ gi' = 1
    /\ pc' = "graph"
    /\ UNCHANGED <<files, names, fi, data, di, li, all_triples,
                   out_gml, out_png, ret, svars>>

\* one iteration of the graph-building loop
GraphStep ==
    /\ pc = "graph"
    /\ gi <= Len(all_triples)
    /\ G' = GraphAdd(G, all_triples[gi])
    /\ gi' = gi + 1
    /\ UNCHANGED <<files, pc, names, fi, data, di, li, all_triples,
                   out_csv, out_gml, out_png, stdout, ret, svars>>

\* nx.write_gml(G, out_gml)
SaveGml ==
    /\ pc = "graph"
    /\ gi > Len(all_triples)
    /\ out_gml' = [written |-> TRUE, graph |-> G]
    /\ stdout' = Append(stdout, "[INFO] Saved graph")
    /\ pc' = "draw"
    /\ UNCHANGED <<files, names, fi, data, di, li, all_triples, G, gi,
                   out_csv, out_png, ret, svars>>

\* Draw without the except clause: the exception leaves the function
Draw_Uncaught ==
    /\ pc = "draw"
    /\ \/ /\ out_png' = [written |-> TRUE, graph |-> G]
          /\ stdout' = Append(stdout, "[INFO] Graph visualization saved")
          /\ pc' = "return"
          /\ UNCHANGED ret
       \/ /\ pc' = "raised"
          /\ ret' = [kind |-> "exception", type |-> "Exception", fname |-> ""]
          /\ UNCHANGED <<out_png, stdout>>
    /\ UNCHANGED <<files, names, fi, data, di, li, all_triples, G, gi,
                   out_csv, out_gml, svars>>

\* the try block: the drawing succeeds, or a step of it raises an Exception,
\* which the except clause catches and prints
Draw ==
    /\ pc = "draw"
    /\ \/ /\ out_png' = [written |-> TRUE, graph |-> G]
          /\ stdout' = Append(stdout, "[INFO] Graph visualization saved")
       \/ /\ stdout' = Append(stdout, "[WARN] Could not draw graph visualization")
          /\ UNCHANGED out_png
    /\ pc' = "return"
    /\ UNCHANGED <<files, names, fi, data, di, li, all_triples, G, gi,
                   out_csv, out_gml, ret, svars>>

\* return all_triples, G
Return ==
    /\ pc = "return"
    /\ ret' = [kind |-> "value", all_triples |-> all_triples, G |-> G]
    /\ pc' = "done"
    /\ UNCHANGED <<files, names, fi, data, di, li, all_triples, G, gi,
                   out_csv, out_gml, out_png, stdout, svars>>

Next ==
    \/ ListDir
    \/ LoadFile
    \/ LoadDone
    \/ ExtractSentence
    \/ SaveCsv
    \/ GraphStep
    \/ SaveGml
    \/ Draw
    \/ Return

Spec ==
    Init /\ [][Next]_vars

(***************************************************************************)
(* Properties of the run of extract_kg_from_processed                      *)
(***************************************************************************)
\* the graph-building loop has processed all_triples[1..gi-1]
InGraphLoop ==
    pc \in {"graph", "draw", "return", "done"}

Processed ==
    1..(gi - 1)

Contributing(u, v) ==
    {j \in Processed : all_triples[j].subject = u /\ all_triples[j].object = v}

MaxConf(S) ==
    CHOOSE c \in {all_triples[j].confidence : j \in S} :
        \A j \in S : all_triples[j].confidence <= c

\* the earliest record of S with the greatest confidence
EarliestBest(S) ==
    CHOOSE j \in S :
        /\ all_triples[j].confidence = MaxConf(S)
        /\ \A k \in S : all_triples[k].confidence = MaxConf(S) => j <= k

\* C1: after the graph-building loop has processed any prefix of the records,
\* every ordered pair (u, v) with a record in the prefix has the edge u->v, whose
\* confidence is the greatest confidence of the pair's records and whose relation
\* is that of the earliest record with that confidence.
C1_GraphMerge ==
    InGraphLoop =>
        \A k \in Processed :
            LET u == all_triples[k].subject
                v == all_triples[k].object
                S == Contributing(u, v)
            IN  /\ has_edge(G, u, v)
                /\ \A e \in G.edges :
                       (e.src = u /\ e.tgt = v) =>
                           /\ e.confidence = MaxConf(S)
                           /\ e.relation = all_triples[EarliestBest(S)].relation

\* a pair whose edge was replaced by a later, more confident record with another
\* relation, and then met a record that ties with it under a third relation
C1_Witness ==
    /\ pc = "graph"
    /\ \E i, j, k \in Processed :
           /\ i < j /\ j < k
           /\ all_triples[i].subject = all_triples[j].subject
           /\ all_triples[i].object = all_triples[j].object
           /\ all_triples[k].subject = all_triples[j].subject
           /\ all_triples[k].object = all_triples[j].object
           /\ all_triples[i].confidence < all_triples[j].confidence
           /\ all_triples[k].confidence = all_triples[j].confidence
           /\ all_triples[k].relation # all_triples[j].relation
           /\ all_triples[i].relation # all_triples[j].relation


\* the subject and object texts of the records processed so far
SeenTexts ==
    {all_triples[k].subject : k \in Processed} \cup {all_triples[k].object : k \in Processed}

GraphShape ==
    /\ \A e1, e2 \in G.edges : (e1.src = e2.src /\ e1.tgt = e2.tgt) => e1 = e2
    /\ \A e \in G.edges : e.src \in NodeIds(G) /\ e.tgt \in NodeIds(G)
    /\ NodeIds(G) = SeenTexts
    /\ \A n \in G.nodes : n.attrs = {<<"label", n.id>>}
    /\ \A n1, n2 \in G.nodes : n1.id = n2.id => n1 = n2
    /\ {<<e.src, e.tgt>> : e \in G.edges}
           = {<<all_triples[k].subject, all_triples[k].object>> : k \in Processed}

GraphGrows ==
    /\ NodeIds(G) \subseteq NodeIds(G')
    /\ \A e \in G.edges : has_edge(G', e.src, e.tgt)

\* C7: at every step of the graph-building loop the graph has at most one edge
\* per ordered pair, the end points of every edge are nodes, the nodes are exactly
\* the subject and object texts of the records processed so far, each labelled
\* with its text, and no node or edge is ever removed.
C7_GraphStructure ==
    /\ [](InGraphLoop => GraphShape)
    /\ [][InGraphLoop => GraphGrows]_vars

\* the loop has met a pair again and a text again: two records, one edge
C7_Witness ==
    /\ pc = "graph"
    /\ Cardinality(Processed) > Cardinality(G.edges)
    /\ Cardinality(G.edges) >= 2
    /\ Cardinality(G.nodes) = 3

(***************************************************************************)
(* The record list expected from the folder: the .txt files in ascending   *)
(* name order, the non-blank lines of each in file order                   *)
(***************************************************************************)
ReadableTxt ==
    {n \in DOMAIN files : n \in TxtNames /\ files[n].readable}

\* the names of S in ascending order
Ascending(S) ==
    CHOOSE q \in [1..Cardinality(S) -> S] :
        \A a, b \in 1..Cardinality(S) : a < b => StrLess(q[a], q[b])

NonBlank(raw) ==
    SelectSeq(raw, LAMBDA l : \E k \in 1..Len(l) : ~ IsSpace(CharAt(l, k)))

RECURSIVE Flatten(_)
Flatten(seqs) ==
    IF seqs = <<>> THEN <<>> ELSE Head(seqs) \o Flatten(Tail(seqs))

FileRecords(fname) ==
    LET raw == NonBlank(files[fname].lines)
    IN  Flatten([k \in 1..Len(raw) |->
                    LET res == extract_triples_from_sentence(nlp(Strip(raw[k])))
                    IN  [t \in 1..Len(res.triples) |->
                            [subject |-> res.triples[t].s, relation |-> res.triples[t].r,
                             object |-> res.triples[t].o, confidence |-> res.triples[t].conf,
                             source_file |-> fname, sentence |-> Strip(raw[k])]]])

ExpectedRecords ==
    LET order == Ascending(ReadableTxt)
    IN  Flatten([k \in 1..Len(order) |-> FileRecords(order[k])])

ExtractionDone ==
    pc \in {"graph", "draw", "return", "done"}

SameFact(a, b) ==
    a.subject = b.subject /\ a.relation = b.relation /\ a.object = b.object

\* C8: the record list holds one record for every deduplicated triple of every
\* sentence, in file-name order and then sentence order, each with its source
\* file and sentence text; nothing is merged across sentences, so a fact found in
\* k sentences has k records.
C8_RecordOrder ==
    ExtractionDone => all_triples = ExpectedRecords

\* two files with a sentence each yield the same fact
C8_Witness ==
    /\ ExtractionDone
    /\ Len(data) = 2
    /\ \E i, j \in 1..Len(all_triples) :
           /\ i < j
           /\ SameFact(all_triples[i], all_triples[j])
           /\ all_triples[i].source_file = "B.TXT"
           /\ all_triples[j].source_file = "a.txt"
           /\ all_triples[i].sentence # all_triples[j].sentence


Printed(msg) ==
    \E k \in 1..Len(stdout) : stdout[k] = msg

\* C5 (as claimed): a file that cannot be opened is skipped; the run goes on,
\* the records of the other files are collected and the exports are written.
C5_UnreadableSkipped ==
    /\ pc # "raised"
    /\ ExtractionDone => all_triples = ExpectedRecords
    /\ pc = "done" => out_gml = [written |-> TRUE, graph |-> G]

\* C9: when no triple is extracted, the run raises nothing, prints the warning,
\* writes no triple table, and writes the empty graph file.
C9_EmptyCorpus ==
    (ExtractionDone /\ all_triples = <<>>) =>
        /\ Printed("[WARN] No triples extracted.")
        /\ out_csv = NoFile
        /\ pc # "graph" => out_gml = [written |-> TRUE, graph |-> EmptyGraph]
        /\ pc = "graph" => ENABLED SaveGml
        /\ pc = "draw" => ENABLED Draw
        /\ pc = "return" => ENABLED Return
        /\ pc = "done" => ret = [kind |-> "value", all_triples |-> <<>>, G |-> EmptyGraph]

\* a sentence was analysed, gave nothing, and the run returned
C9_Witness ==
    /\ pc = "done"
    /\ all_triples = <<>>
    /\ data # <<>>
    /\ out_gml = [written |-> TRUE, graph |-> EmptyGraph]

DrawWarning ==
    "[WARN] Could not draw graph visualization"

ExportsWritten ==
    /\ out_gml = [written |-> TRUE, graph |-> G]
    /\ all_triples # <<>> => out_csv = [written |-> TRUE, rows |-> all_triples]
    /\ all_triples = <<>> => out_csv = NoFile

PipelineIdle ==
    /\ files = <<>>
    /\ pc = "idle"
    /\ names = <<>>
    /\ fi = 1
    /\ data = <<>>
    /\ di = 1
    /\ li = 1
    /\ all_triples = <<>>
    /\ G = EmptyGraph
    /\ gi = 1
    /\ out_csv = NoFile
    /\ out_gml = NoFile
    /\ out_png = NoFile
    /\ stdout = <<>>
    /\ ret = [kind |-> "running"]

SentInit ==
    /\ PipelineIdle
    /\ s_doc \in SentenceDocs
    /\ s_stage = "parsed"
    /\ s_ents = <<>>
    /\ s_svo = <<>>
    /\ s_prep = <<>>
    /\ s_triples = <<>>
    /\ s_result = <<>>

\* ents = extract_entities_from_sentence(doc); triples = []
SentEntities ==
    /\ s_stage = "parsed"
    /\ s_ents' = extract_entities_from_sentence(s_doc)
    /\ s_stage' = "ents"
    /\ UNCHANGED <<pvars, s_doc, s_svo, s_prep, s_triples, s_result>>

\* triples.extend(extract_svo_triples(doc, ents))
SentSvo ==
    /\ s_stage = "ents"
    /\ s_svo' = extract_svo_triples(s_doc, s_ents)
    /\ s_triples' = s_triples \o s_svo'
    /\ s_stage' = "svo"
    /\ UNCHANGED <<pvars, s_doc, s_ents, s_prep, s_result>>

\* triples.extend(extract_prep_triples(doc, ents))
SentPrep ==
    /\ s_stage = "svo"
    /\ s_prep' = extract_prep_triples(s_doc, s_ents)
    /\ s_triples' = s_triples \o s_prep'
    /\ s_stage' = "prep"
    /\ UNCHANGED <<pvars, s_doc, s_ents, s_svo, s_result>>

\* if not triples and len(ents) >= 2: triples.extend(extract_cooccurrence_triples(...))
SentFallback ==
    /\ s_stage = "prep"
    /\ \/ /\ FallbackRuns(s_triples, s_ents)
          /\ s_triples' = s_triples \o extract_cooccurrence_triples(s_ents)
       \/ /\ ~ FallbackRuns(s_triples, s_ents)
          /\ UNCHANGED s_triples
    /\ s_stage' = "candidates"
    /\ UNCHANGED <<pvars, s_doc, s_ents, s_svo, s_prep, s_result>>

\* the deduplication loop and the return
SentDedup ==
    /\ s_stage = "candidates"
    /\ s_result' = Deduplicate(s_triples)
    /\ s_stage' = "returned"
    /\ UNCHANGED <<pvars, s_doc, s_ents, s_svo, s_prep, s_triples>>

SentNext ==
    \/ SentEntities
    \/ SentSvo
    \/ SentPrep
    \/ SentFallback
    \/ SentDedup

SentSpec ==
    SentInit /\ [][SentNext]_vars

(***************************************************************************)
(* Properties of extract_triples_from_sentence                             *)
(***************************************************************************)
Returned ==
    s_stage = "returned"

SameKey(a, b) ==
    a.s = b.s /\ a.r = b.r /\ a.o = b.o

\* C2: the returned list holds at most one triple per (subject, relation, object),
\* whose confidence is the greatest among the candidates of that key.
C2_DedupKey ==
    Returned =>
        /\ \A i, j \in 1..Len(s_result) : SameKey(s_result[i], s_result[j]) => i = j
        /\ \A i \in 1..Len(s_result) :
               LET same == {c \in 1..Len(s_triples) : SameKey(s_triples[c], s_result[i])}
               IN  /\ \E c \in same : s_triples[c].conf = s_result[i].conf
                   /\ \A c \in same : s_triples[c].conf <= s_result[i].conf

\* the SVO and the prepositional extractor produced the same key
C2_Witness ==
    /\ Returned
    /\ \E a, b \in 1..Len(s_triples) :
           /\ SameKey(s_triples[a], s_triples[b])
           /\ a < b
           /\ s_triples[a].conf > s_triples[b].conf
    /\ Len(s_result) < Len(s_triples)

HasCooccurrence ==
    \E k \in 1..Len(s_result) : s_result[k].r = "related_to" /\ s_result[k].conf = ConfCooc

StrongEmpty ==
    s_svo = <<>> /\ s_prep = <<>>

\* C3 (as claimed): co-occurrence triples are in the output iff both extractors
\* produced nothing and at least two entity spans were detected.
C3_FallbackIffTwoSpans ==
    Returned => (HasCooccurrence <=> (StrongEmpty /\ Len(s_ents) >= 2))

\* C3 (amended): co-occurrence triples are in the output iff both extractors
\* produced nothing and two entity spans with different normalized texts were
\* detected.
C3_FallbackGating ==
    Returned =>
        (HasCooccurrence <=>
            /\ StrongEmpty
            /\ \E i, j \in 1..Len(s_ents) : s_ents[i].text # s_ents[j].text)

\* the fallback ran on three spans, two of them with the same text
C3_Witness ==
    /\ Returned
    /\ HasCooccurrence
    /\ StrongEmpty
    /\ Len(s_ents) = 3
    /\ \E i, j \in 1..Len(s_ents) : i # j /\ s_ents[i].text = s_ents[j].text

\* the prep tokens that have a pobj child
PrepTokens(doc) ==
    {i \in 1..Len(doc.tokens) :
        /\ doc.tokens[i].dep = "prep"
        /\ \E c \in 1..Len(doc.tokens) :
               c # i /\ doc.tokens[c].head = i /\ doc.tokens[c].dep = "pobj"}

\* the head of token i lies in no collected span
HeadUncovered(doc, ents, i) ==
    LET h == doc.tokens[i].head
    IN  ~ \E e \in 1..Len(ents) :
            /\ doc.tokens[h].idx >= ents[e].start_char
            /\ doc.tokens[h].idx + doc.tokens[h].len <= ents[e].end_char

FromPrep(doc, i, t) ==
    /\ t.r = Lower(TokenText(doc, i))
    /\ t.s = normalize_entity(TokenText(doc, doc.tokens[i].head))
    /\ t.conf = ConfPrep

WaterFallback ==
    << Triple("water", "related_to", "100 degrees", ConfCooc) >>

WaterPrep ==
    << Triple("boils", "at", "100 degrees", ConfPrep) >>

\* C4 (as claimed): a prep token with a pobj child whose head lies in no entity
\* span yields no triple, and "Water boils at 100 degrees." yields exactly the
\* co-occurrence triple (water, related_to, 100 degrees, 0.4).
C4_UncoveredHeadYieldsNothing ==
    Returned =>
        /\ \A i \in PrepTokens(s_doc) :
               HeadUncovered(s_doc, s_ents, i) =>
                   ~ \E k \in 1..Len(s_prep) : FromPrep(s_doc, i, s_prep[k])
        /\ s_doc = DocWater => s_result = WaterFallback

\* C4 (amended): a prep token with a pobj child whose head lies in no entity span
\* yields the triple (head's own text normalized, preposition lowercased, resolved
\* pobj, 0.7), like every prep token with a pobj child; so "Water boils at 100
\* degrees." yields exactly (boils, at, 100 degrees, 0.7) and no co-occurrence
\* triple.
C4_UncoveredHeadUsesTokenText ==
    Returned =>
        /\ \A i \in PrepTokens(s_doc) :
               HeadUncovered(s_doc, s_ents, i) =>
                   \E k \in 1..Len(s_prep) : FromPrep(s_doc, i, s_prep[k])
        /\ Len(s_prep) = Cardinality(PrepTokens(s_doc))
        /\ s_doc = DocWater => (s_result = WaterPrep /\ ~ HasCooccurrence)

C4_Witness ==
    /\ Returned
    /\ s_doc = DocWater
    /\ Len(s_ents) = 2
    /\ s_svo = <<>>
    /\ \E i \in PrepTokens(s_doc) : HeadUncovered(s_doc, s_ents, i)
    /\ s_result = WaterPrep

IsNer(e) ==
    e.typ = "NER"

IsChunk(e) ==
    e.typ = "NOUN_CHUNK"

\* C6: in the span sequence the named-entity spans come before the noun-chunk
\* spans, and no noun-chunk span has the normalized text of a named-entity span.
C6_SpanDedup ==
    s_stage \in {"ents", "svo", "prep", "candidates", "returned"} =>
        /\ \A i, j \in 1..Len(s_ents) :
               (IsChunk(s_ents[i]) /\ IsNer(s_ents[j])) =>
                   (j < i /\ s_ents[i].text # s_ents[j].text)
        /\ \A k \in 1..Len(s_doc.ents) :
               /\ k <= Len(s_ents)
               /\ IsNer(s_ents[k])
               /\ s_ents[k].start_char = s_doc.ents[k].start_char

\* a noun chunk written differently from a named entity, equal to it once
\* normalized, was left out, and another noun chunk was kept
C6_Witness ==
    /\ s_stage = "ents"
    /\ \E c \in 1..Len(s_doc.noun_chunks), n \in 1..Len(s_doc.ents) :
           /\ SpanText(s_doc, s_doc.noun_chunks[c]) # SpanText(s_doc, s_doc.ents[n])
           /\ normalize_entity(SpanText(s_doc, s_doc.noun_chunks[c])) = s_ents[n].text
           /\ ~ \E e \in 1..Len(s_ents) :
                  /\ IsChunk(s_ents[e])
                  /\ s_ents[e].start_char = s_doc.noun_chunks[c].start_char
    /\ \E e \in 1..Len(s_ents) : IsChunk(s_ents[e])

(***************************************************************************)
(* Properties of extract_svo_triples                                       *)
(***************************************************************************)
SvoDone ==
    s_stage \in {"svo", "prep", "candidates", "returned"}

VerbTokens(doc) ==
    {i \in 1..Len(doc.tokens) : doc.tokens[i].pos = "VERB"}

\* the children of token i that carry one of the labels
ChildrenWith(doc, i, deps) ==
    {c \in 1..Len(doc.tokens) :
        c # i /\ doc.tokens[c].head = i /\ doc.tokens[c].dep \in deps}

\* the triples of verb i in the list
OfVerb(doc, i, triples) ==
    {k \in 1..Len(triples) : triples[k].r = Lower(doc.tokens[i].lemma)}

\* C11: every VERB token with m >= 1 subject children and n >= 1 object children
\* has one triple per (subject child, object child) pair in the list of
\* extract_svo_triples, m * n triples for that verb, each with the verb's
\* lowercased lemma as relation and confidence 1.0.
C11_SvoCrossProduct ==
    SvoDone =>
        \A i \in VerbTokens(s_doc) :
            LET subjs == ChildrenWith(s_doc, i, SubjDeps)
                objs == ChildrenWith(s_doc, i, ObjDeps)
                m == TokenIdxToEnt(s_doc, s_ents, 1, EmptyMap)
            IN  (subjs # {} /\ objs # {}) =>
                    /\ Cardinality(OfVerb(s_doc, i, s_svo))
                           = Cardinality(subjs) * Cardinality(objs)
                    /\ \A sc \in subjs, oc \in objs :
                           \E k \in 1..Len(s_svo) :
                               s_svo[k] = Triple(normalize_entity(Resolve(s_doc, m, sc)),
                                                 Lower(s_doc.tokens[i].lemma),
                                                 normalize_entity(Resolve(s_doc, m, oc)),
                                                 ConfSVO)

(***************************************************************************)
(* Properties of the co-occurrence fallback                                *)
(***************************************************************************)
\* the gate let the fallback run
FallbackRan ==
    s_stage \in {"candidates", "returned"} /\ FallbackRuns(s_svo \o s_prep, s_ents)

EntTexts ==
    {normalize_entity(s_ents[k].text) : k \in 1..Len(s_ents)}

\* the returned triples that relate a and b, in either direction
Relating(a, b) ==
    {k \in 1..Len(s_result) :
        \/ s_result[k].s = a /\ s_result[k].o = b
        \/ s_result[k].s = b /\ s_result[k].o = a}

\* C12: when the fallback runs, the returned list holds exactly one triple
\* (a, related_to, b, 0.4) for every unordered pair {a, b} of distinct normalized
\* entity texts of the sentence's spans, never both directions, and no triple
\* whose subject equals its object.
C12_CoocPairs ==
    (Returned /\ FallbackRan) =>
        /\ \A a, b \in EntTexts :
               a # b =>
                   /\ Cardinality(Relating(a, b)) = 1
                   /\ \A k \in Relating(a, b) :
                          s_result[k].r = "related_to" /\ s_result[k].conf = ConfCooc
        /\ \A k \in 1..Len(s_result) : s_result[k].s # s_result[k].o

(***************************************************************************)
(* Document-level parallel merge (specification section 5): workers with   *)
(* local node/edge sets and a reduction pass, against the graph built by   *)
(* the loop of extract_kg_from_processed                                   *)
(***************************************************************************)
\* number of workers
MaxWorkers == 2

Workers ==
    1..MaxWorkers

\* the documents that contributed records
Documents ==
    {all_triples[k].source_file : k \in 1..Len(all_triples)}

\* position of the first record of a document in the record sequence
FirstRecord(d) ==
    CHOOSE k \in 1..Len(all_triples) :
        /\ all_triples[k].source_file = d
        /\ \A j \in 1..(k - 1) : all_triples[j].source_file # d

\* a partition of the record sequence by document
Assignments ==
    [Documents -> Workers]

WorkerRecords(asg, w) ==
    SelectSeq(all_triples, LAMBDA r : asg[r.source_file] = w)

SamePair(e, f) ==
    e.src = f.src /\ e.tgt = f.tgt

\* the strict-greater-than rule on a set of edges that meets edge e
StrictGreater(edges, e) ==
    IF \E f \in edges : SamePair(e, f)
    THEN {f \in edges : ~ (SamePair(e, f) /\ e.confidence > f.confidence)}
             \cup {f \in {e} : \E g \in edges : SamePair(e, g) /\ e.confidence > g.confidence}
    ELSE edges \cup {e}

LabelledNode(n) ==
    [id |-> n, attrs |-> {<<"label", n>>}]

\* a worker folds its records, in order, into its local node/edge set
RECURSIVE LocalFold(_, _, _)
LocalFold(records, k, L) ==
    IF k > Len(records) THEN L
    ELSE LET r == records[k]
         IN  LocalFold(records, k + 1,
                 [nodes |-> L.nodes \cup {LabelledNode(r.subject), LabelledNode(r.object)},
                  edges |-> StrictGreater(L.edges,
                                [src |-> r.subject, tgt |-> r.object,
                                 relation |-> r.relation, confidence |-> r.confidence])])

\* the reduction meets the edges of one worker; they have distinct pairs
RECURSIVE ReduceEdges(_, _)
ReduceEdges(edges, local) ==
    IF local = {} THEN edges
    ELSE LET e == CHOOSE x \in local : TRUE
         IN  ReduceEdges(StrictGreater(edges, e), local \ {e})

\* the reduction pass over the workers' outputs, in the order given
RECURSIVE Reduce(_, _, _, _)
Reduce(asg, order, k, R) ==
    IF k > Len(order) THEN R
    ELSE LET L == LocalFold(WorkerRecords(asg, order[k]), 1, EmptyGraph)
         IN  Reduce(asg, order, k + 1,
                 [nodes |-> R.nodes \cup L.nodes,
                  edges |-> ReduceEdges(R.edges, L.edges)])

ParallelGraph(asg, order) ==
    Reduce(asg, order, 1, EmptyGraph)

\* the graph-building loop is over
GraphDone ==
    pc \in {"draw", "return", "done"}

PositionIn(order, w) ==
    CHOOSE k \in 1..Len(order) : order[k] = w

\* the reduction meets the workers in the order of their documents in the
\* record sequence
FollowsRecords(asg, order) ==
    \A d1, d2 \in Documents :
        FirstRecord(d1) < FirstRecord(d2) =>
            PositionIn(order, asg[d1]) <= PositionIn(order, asg[d2])

\* C13 (as claimed): for every partition of the records by document and every
\* fixed order of the reduction over the workers, the reduced graph has the nodes,
\* edges, confidences and relation labels of the graph built by the sequential
\* loop.
C13_ParallelMergeAnyOrder ==
    GraphDone =>
        \A asg \in Assignments, order \in Perms(Workers) :
            ParallelGraph(asg, order) = G

\* C13 (amended): for every partition of the records by document and every
\* reduction that meets the workers in the order of their documents in the record
\* sequence, the reduced graph has the nodes, edges, confidences and relation
\* labels of the graph built by the sequential loop.
C13_ParallelMergeRecordOrder ==
    GraphDone =>
        \A asg \in Assignments, order \in Perms(Workers) :
            FollowsRecords(asg, order) => ParallelGraph(asg, order) = G

\* two documents hold records of the same pair with equal confidence and
\* different relations, and the reduction of two workers gives the built graph
C13_Witness ==
    /\ GraphDone
    /\ \E i, j \in 1..Len(all_triples) :
           /\ all_triples[i].source_file # all_triples[j].source_file
           /\ all_triples[i].subject = all_triples[j].subject
           /\ all_triples[i].object = all_triples[j].object
           /\ all_triples[i].confidence = all_triples[j].confidence
           /\ all_triples[i].relation # all_triples[j].relation
    /\ \E asg \in Assignments, order \in Perms(Workers) :
           /\ \E d1, d2 \in Documents : asg[d1] # asg[d2]
           /\ FollowsRecords(asg, order)
           /\ ParallelGraph(asg, order) = G

(***************************************************************************)
(* Properties of the deduplication: distinct facts                         *)
(***************************************************************************)
\* the distinct (subject, relation, object) combinations of a list of triples
Facts(triples) ==
    {<<triples[k].s, triples[k].r, triples[k].o>> : k \in 1..Len(triples)}

\* C14: every distinct (subject, relation, object) combination among the
\* candidate triples of a sentence is present in the returned list: two
\* candidates are merged only when subject, relation and object are each equal,
\* also when the texts contain the character '|'.
C14_DedupKeepsFacts ==
    Returned =>
        /\ Facts(s_result) = Facts(s_triples)
        /\ Len(s_result) = Cardinality(Facts(s_triples))

(***************************************************************************)
(* Properties of the token -> entity text maps of the two extractors       *)
(***************************************************************************)
ExtractorsDone ==
    s_stage \in {"prep", "candidates", "returned"}

\* the positions in the span sequence of the spans that contain token i
Covering(doc, ents, i) ==
    {k \in 1..Len(ents) :
        /\ doc.tokens[i].idx >= ents[k].start_char
        /\ doc.tokens[i].idx + doc.tokens[i].len <= ents[k].end_char}

LastOf(S) ==
    CHOOSE k \in S : \A j \in S : j <= k

\* the text of the last span that contains token i, the token's text if none does
EntOf(doc, ents, i) ==
    IF Covering(doc, ents, i) = {} THEN TokenText(doc, i)
    ELSE ents[LastOf(Covering(doc, ents, i))].text

\* C15: in extract_svo_triples and extract_prep_triples a token that lies inside
\* several collected spans resolves to the text of the last of them in the span
\* sequence (a noun-chunk span overrides a named-entity span), a token inside no
\* span resolves to its own surface text, both extractors build the same map,
\* and the subjects and objects of their triples are these resolutions.
C15_EntityMapResolution ==
    ExtractorsDone =>
        LET svo_map == TokenIdxToEnt(s_doc, s_ents, 1, EmptyMap)
            prep_map == PrepTokenIdxToEnt(s_doc, s_ents, 1, EmptyMap)
            toks == 1..Len(s_doc.tokens)
        IN  /\ svo_map = prep_map
            /\ DOMAIN svo_map = {i \in toks : Covering(s_doc, s_ents, i) # {}}
            /\ \A i \in toks : Resolve(s_doc, svo_map, i) = EntOf(s_doc, s_ents, i)
            /\ \A i \in toks : Resolve(s_doc, prep_map, i) = EntOf(s_doc, s_ents, i)
            /\ \A k \in 1..Len(s_svo) :
                   \E i \in VerbTokens(s_doc) :
                       \E sc \in ChildrenWith(s_doc, i, SubjDeps),
                          oc \in ChildrenWith(s_doc, i, ObjDeps) :
                           s_svo[k] = Triple(normalize_entity(EntOf(s_doc, s_ents, sc)),
                                             Lower(s_doc.tokens[i].lemma),
                                             normalize_entity(EntOf(s_doc, s_ents, oc)),
                                             ConfSVO)
            /\ \A k \in 1..Len(s_prep) :
                   \E i \in PrepTokens(s_doc) :
                       \E po \in ChildrenWith(s_doc, i, PobjDeps) :
                           s_prep[k] = Triple(normalize_entity(
                                                  EntOf(s_doc, s_ents, s_doc.tokens[i].head)),
                                              Lower(TokenText(s_doc, i)),
                                              normalize_entity(EntOf(s_doc, s_ents, po)),
                                              ConfPrep)

\* a token inside a named-entity span and a later noun-chunk span with another
\* text is the object of an SVO triple that carries the noun chunk's text, and
\* the subject of a prepositional triple is a token outside every span
C15_Witness ==
    /\ s_stage = "prep"
    /\ \E i \in 1..Len(s_doc.tokens) :
           \E a, b \in Covering(s_doc, s_ents, i) :
               /\ a < b /\ b = LastOf(Covering(s_doc, s_ents, i))
               /\ IsNer(s_ents[a]) /\ IsChunk(s_ents[b])
               /\ s_ents[a].text # s_ents[b].text
               /\ \E v \in VerbTokens(s_doc) : i \in ChildrenWith(s_doc, v, ObjDeps)
               /\ \E k \in 1..Len(s_svo) : s_svo[k].o = s_ents[b].text
    /\ \E i \in PrepTokens(s_doc) :
           /\ Covering(s_doc, s_ents, s_doc.tokens[i].head) = {}
           /\ \E k \in 1..Len(s_prep) :
                  s_prep[k].s = normalize_entity(TokenText(s_doc, s_doc.tokens[i].head))
=============================================================================
